---- MODULE Spec2Model ----
(***************************************************************************)
(* Model of the gravity simulation in src/main.go: the Object (Body) with  *)
(* AddForce / Update / ModelMatrix, and the fixed-timestep loop of main.   *)
(*                                                                         *)
(* All quantities of the program are Go float32 values.  They are modelled *)
(* bit-exactly as IEEE-754 binary32 numbers with round-to-nearest-even,    *)
(* gradual underflow, overflow to infinity and NaN.  A finite value is the *)
(* record [k |-> "fin", m |-> M, e |-> E] standing for M * 2^E with        *)
(* 2^23 <= |M| < 2^24 (or |M| < 2^23 and E = -149 for zero and             *)
(* subnormals).  The sign of zero is not represented: Go's comparisons     *)
(* treat -0 and +0 as equal and the program never divides by a computed    *)
(* zero nor prints one.  Each arithmetic operation is rounded on its own   *)
(* (the amd64 build; no fused multiply-add).                               *)
(***************************************************************************)
EXTENDS Integers, Sequences, FiniteSets, TLC

(***************************************************************************)
(* float32 format                                                          *)
(***************************************************************************)
\* number of significand bits of a float32
MantBits == 24
\* exponent of the least significant bit of the smallest subnormal
EMin == -149
\* largest exponent of the least significant bit of a finite float32
EMax == 104

\* the powers of two 2^0 .. 2^30
PowersOf2 ==
    <<1, 2, 4, 8, 16, 32, 64, 128, 256, 512, 1024, 2048, 4096, 8192, 16384,
      32768, 65536, 131072, 262144, 524288, 1048576, 2097152, 4194304,
      8388608, 16777216, 33554432, 67108864, 134217728, 268435456,
      536870912, 1073741824>>
Pow2(n) == IF n <= 0 THEN 1 ELSE PowersOf2[n + 1]

\* the element of a one-element set.  TLC evaluates an argument of an
\* operator anew at each of its uses when it computes ENABLED; the operators
\* below that use an argument more than once bind its value first, as in
\* Only({... x ... : x \in {x0}}).
Only(S) == CHOOSE v \in S : TRUE

\* number of bits of a (0 <= a < 2^30)
BitLen(a0) ==
    Only({(
        Cardinality({i \in 1..30 : PowersOf2[i] <= a})
        ) : a \in {a0}})

Abs(i) == IF i < 0 THEN -i ELSE i
Sgn(i) == IF i < 0 THEN -1 ELSE 1
Max(a, b) == IF a >= b THEN a ELSE b
Min(a, b) == IF a <= b THEN a ELSE b

Fin(m, e) == [k |-> "fin", m |-> m, e |-> e]
NaN == [k |-> "nan", m |-> 0, e |-> 0]
Inf(s) == [k |-> "inf", m |-> s, e |-> 0]
Zero == Fin(0, EMin)

IsNaN(x) == x.k = "nan"
IsInf(x) == x.k = "inf"
IsFin(x) == x.k = "fin"

\* a / 2^sh rounded to nearest, ties to even (a >= 0, sh >= 1)
ShiftRNE(a0, sh0) ==
    Only({(
        IF sh > 30 THEN 0
        ELSE LET q == a \div Pow2(sh)
                 r == a % Pow2(sh)
                 half == Pow2(sh - 1)
             IN  IF r > half \/ (r = half /\ q % 2 = 1) THEN q + 1 ELSE q
        ) : a \in {a0}, sh \in {sh0}})

\* The float32 nearest to m * 2^e (|m| < 2^30).  Callers that have dropped
\* low bits keep at least 26 significant bits in m and set its lowest bit
\* (a sticky bit), so that the rounding below is the rounding of the exact
\* value.
Round(m0, e0) ==
    Only({(
        LET a == Abs(m)
            L == BitLen(a)
            sh == Max(L - MantBits, EMin - e)
        IN  IF a = 0 THEN Zero
            ELSE IF sh <= 0
            THEN LET up == Min(MantBits - L, e - EMin)
                 IN  Fin(Sgn(m) * a * Pow2(up), e - up)
            ELSE LET q == ShiftRNE(a, sh)
                     carry == q = Pow2(MantBits)
                     q2 == IF carry THEN Pow2(MantBits - 1) ELSE q
                     e2 == IF carry THEN e + sh + 1 ELSE e + sh
                 IN  IF q2 = 0 THEN Zero
                     ELSE IF e2 > EMax THEN Inf(Sgn(m))
                     ELSE Fin(Sgn(m) * q2, e2)
        ) : m \in {m0}, e \in {e0}})

\* a / 2^d truncated, with the lowest bit set when anything was dropped
ShiftSticky(a0, d0) ==
    Only({(
        IF d <= 0 THEN a
        ELSE IF d > 30 THEN (IF a = 0 THEN 0 ELSE 1)
        ELSE LET q == a \div Pow2(d)
             IN  IF a % Pow2(d) # 0 /\ q % 2 = 0 THEN q + 1 ELSE q
        ) : a \in {a0}, d \in {d0}})

\* float32 negation
FNeg(x0) ==
    Only({(
        IF IsNaN(x) THEN NaN
        ELSE IF IsInf(x) THEN Inf(-x.m)
        ELSE Fin(-x.m, x.e)
        ) : x \in {x0}})

\* float32 addition x + y
FAdd(x0, y0) ==
    Only({(
        IF IsNaN(x) \/ IsNaN(y) THEN NaN
        ELSE IF IsInf(x) /\ IsInf(y) THEN (IF x.m = y.m THEN x ELSE NaN)
        ELSE IF IsInf(x) THEN x
        ELSE IF IsInf(y) THEN y
        ELSE IF x.m = 0 THEN y
        ELSE IF y.m = 0 THEN x
        ELSE LET hi == IF x.e >= y.e THEN x ELSE y
                 lo == IF x.e >= y.e THEN y ELSE x
                 d == hi.e - lo.e
                 H == hi.m * 8
                 Lw == Sgn(lo.m) * ShiftSticky(Abs(lo.m) * 8, d)
             IN  Round(H + Lw, hi.e - 3)
        ) : x \in {x0}, y \in {y0}})

\* the 48-bit product a * b of two significands as <<high 24 bits, low 24 bits>>
MulWide(a, b) ==
    LET a1 == a \div 4096
        a0 == a % 4096
        b1 == b \div 4096
        b0 == b % 4096
        cross == a1 * b0 + a0 * b1
        low == a0 * b0 + (cross % 4096) * 4096
    IN  <<a1 * b1 + cross \div 4096 + low \div Pow2(24), low % Pow2(24)>>

\* float32 multiplication x * y
FMul(x0, y0) ==
    Only({(
        IF IsNaN(x) \/ IsNaN(y) THEN NaN
        ELSE IF IsInf(x) \/ IsInf(y)
        THEN (IF x.m = 0 \/ y.m = 0 THEN NaN ELSE Inf(Sgn(x.m) * Sgn(y.m)))
        ELSE IF x.m = 0 \/ y.m = 0 THEN Zero
        ELSE LET w == MulWide(Abs(x.m), Abs(y.m))
                 s == Sgn(x.m) * Sgn(y.m)
                 drop == Max(0, BitLen(w[1]) - 4)
                 keep == w[1] * Pow2(24 - drop) + w[2] \div Pow2(drop)
                 t == IF w[2] % Pow2(drop) # 0 /\ keep % 2 = 0 THEN keep + 1 ELSE keep
             IN  Round(s * t, x.e + y.e + drop)
        ) : x \in {x0}, y \in {y0}})

\* k more quotient bits of a division by b: qr = <<quotient, remainder>>
\* so far (remainder < b < 2^24, k <= 6)
DivStep(qr0, b0, k0) ==
    Only({(
        <<qr[1] * Pow2(k) + (qr[2] * Pow2(k)) \div b, (qr[2] * Pow2(k)) % b>>
        ) : qr \in {qr0}, b \in {b0}, k \in {k0}})

\* floor(a * 2^26 / b) and whether a remainder is left (a, b < 2^24)
LongDiv(a0, b0) ==
    Only({(
        LET s0 == <<a \div b, a % b>>
            s1 == DivStep(s0, b, 6)
            s2 == DivStep(s1, b, 6)
            s3 == DivStep(s2, b, 6)
            s4 == DivStep(s3, b, 6)
        IN  DivStep(s4, b, 2)
        ) : a \in {a0}, b \in {b0}})

\* float32 division x / y
FDiv(x0, y0) ==
    Only({(
        IF IsNaN(x) \/ IsNaN(y) THEN NaN
        ELSE IF IsInf(x) THEN (IF IsInf(y) THEN NaN ELSE Inf(x.m * Sgn(y.m)))
        ELSE IF IsInf(y) THEN Zero
        ELSE IF y.m = 0 THEN (IF x.m = 0 THEN NaN ELSE Inf(Sgn(x.m)))
        ELSE IF x.m = 0 THEN Zero
        ELSE LET ua == MantBits - BitLen(Abs(x.m))
                 ub == MantBits - BitLen(Abs(y.m))
                 a == Abs(x.m) * Pow2(ua)
                 b == Abs(y.m) * Pow2(ub)
                 qr == LongDiv(a, b)
                 t == IF qr[2] # 0 /\ qr[1] % 2 = 0 THEN qr[1] + 1 ELSE qr[1]
             IN  Round(Sgn(x.m) * Sgn(y.m) * t, (x.e - ua) - (y.e - ub) - 26)
        ) : x \in {x0}, y \in {y0}})

\* float32 comparison x < y
FLt(x0, y0) ==
    Only({(
        IF IsNaN(x) \/ IsNaN(y) THEN FALSE
        ELSE IF IsInf(x) THEN x.m < 0 /\ ~(IsInf(y) /\ y.m < 0)
        ELSE IF IsInf(y) THEN y.m > 0
        ELSE IF x.m < 0 /\ y.m >= 0 THEN TRUE
        ELSE IF x.m >= 0 /\ y.m < 0 THEN FALSE
        ELSE IF x.m >= 0 THEN x.e < y.e \/ (x.e = y.e /\ x.m < y.m)
        ELSE y.e < x.e \/ (x.e = y.e /\ x.m < y.m)
        ) : x \in {x0}, y \in {y0}})

\* float32 comparison x <= y
FLe(x0, y0) ==
    Only({(
        ~IsNaN(x) /\ ~IsNaN(y) /\ ~FLt(y, x)
        ) : x \in {x0}, y \in {y0}})

\* the float32 value of an integer literal
FInt(n) == Round(n, 0)

\* the float32 value of the decimal literal n / d, as the compiler rounds it
Dec(n, d) == FDiv(FInt(n), FInt(d))

One == FInt(1)

(***************************************************************************)
(* mgl32.Vec3 and mgl32.Mat4 as the program uses them                      *)
(***************************************************************************)
Vec3(x, y, z) == <<x, y, z>>
Zero3 == Vec3(Zero, Zero, Zero)
\* Vec3.Add: componentwise float32 sum
Add3(a0, b0) ==
    Only({(
        <<FAdd(a[1], b[1]), FAdd(a[2], b[2]), FAdd(a[3], b[3])>>
        ) : a \in {a0}, b \in {b0}})
\* Vec3.Mul: every component times the scalar c
Mul3(a0, c0) ==
    Only({(
        <<FMul(a[1], c), FMul(a[2], c), FMul(a[3], c)>>
        ) : a \in {a0}, c \in {c0}})
\* mgl32.Translate3D: the column-major 4x4 translation matrix
Translate3D(x, y, z) ==
    <<One, Zero, Zero, Zero,
      Zero, One, Zero, Zero,
      Zero, Zero, One, Zero,
      x, y, z, One>>

(***************************************************************************)
(* Program constants                                                       *)
(***************************************************************************)
\* const timeStep = 0.01, used as a float32
timeStep == Dec(1, 100)
\* the literal 9.81 of the gravity force
gravityG == Dec(981, 100)
\* the literal -1.0 of the ground check
groundLevel == FNeg(One)

(***************************************************************************)
(* Object                                                                  *)
(***************************************************************************)
NewObject(position, velocity, mass, elasticity) ==
    [Position |-> position, Velocity |-> velocity, Mass |-> mass,
     Forces |-> Zero3, Elasticity |-> elasticity]

\* AddForce with "=" for "Add": the force replaces the accumulated one
AddForceOverwrite(o0, force0) == [o0 EXCEPT !.Forces = force0]

AddForce(o0, force0) ==
    Only({(
        [o EXCEPT !.Forces = Add3(o.Forces, force)]
        ) : o \in {o0}, force \in {force0}})

\* Update without line 56: the forces are not reset
IntegrateKeepForces(o0, dt0) ==
    Only({(
        LET acceleration == Mul3(o.Forces, FDiv(One, o.Mass))
            velocity == Add3(o.Velocity, Mul3(acceleration, dt))
        IN  [o EXCEPT !.Velocity = velocity,
                      !.Position = Add3(o.Position, Mul3(velocity, dt))]
        ) : o \in {o0}, dt \in {dt0}})

\* Update with line 54 as Position.Add(Velocity): the step is not scaled by dt
IntegrateNoDt(o0, dt0) ==
    Only({(
        LET acceleration == Mul3(o.Forces, FDiv(One, o.Mass))
            velocity == Add3(o.Velocity, Mul3(acceleration, dt))
        IN  [o EXCEPT !.Velocity = velocity,
                      !.Position = Add3(o.Position, velocity),
                      !.Forces = Zero3]
        ) : o \in {o0}, dt \in {dt0}})

\* Update, lines 49-56: acceleration, velocity, position, reset of Forces
Integrate(o0, dt0) ==
    Only({(
        LET acceleration == Mul3(o.Forces, FDiv(One, o.Mass))
            velocity == Add3(o.Velocity, Mul3(acceleration, dt))
        IN  [o EXCEPT !.Velocity = velocity,
                      !.Position = Add3(o.Position, Mul3(velocity, dt)),
                      !.Forces = Zero3]
        ) : o \in {o0}, dt \in {dt0}})

\* Update without line 60: the velocity is reflected, the position not clamped
CollideNoClamp(o0) ==
    Only({(
        IF FLt(o.Position[2], groundLevel)
        THEN [o EXCEPT !.Velocity[2] = FMul(FNeg(o.Velocity[2]), o.Elasticity)]
        ELSE o
        ) : o \in {o0}})

\* Update with line 61 as -Velocity.Y(): the bounce loses no energy
CollideNoElasticity(o0) ==
    Only({(
        IF FLt(o.Position[2], groundLevel)
        THEN [o EXCEPT !.Position[2] = groundLevel,
                       !.Velocity[2] = FNeg(o.Velocity[2])]
        ELSE o
        ) : o \in {o0}})

\* Update, lines 58-62: collision with the ground
Collide(o0) ==
    Only({(
        IF FLt(o.Position[2], groundLevel)
        THEN [o EXCEPT !.Position[2] = groundLevel,
                       !.Velocity[2] = FMul(FNeg(o.Velocity[2]), o.Elasticity)]
        ELSE o
        ) : o \in {o0}})

Update(o, dt) == Collide(Integrate(o, dt))

ModelMatrix(o0) ==
    Only({(
        Translate3D(o.Position[1], o.Position[2], o.Position[3])
        ) : o \in {o0}})

\* the object main constructs
mainObject == NewObject(Vec3(Zero, Zero, Zero), Vec3(Zero, FInt(5), Zero),
                        One, Dec(8, 10))

\* line 132 with 9.81 for -9.81: gravity pulls upwards
GravityUp(o0) == Vec3(Zero, FMul(gravityG, o0.Mass), Zero)

\* the gravity force main adds every tick
Gravity(o0) ==
    Only({(
        Vec3(Zero, FMul(FNeg(gravityG), o.Mass), Zero)
        ) : o \in {o0}})

(***************************************************************************)
(* Bounds                                                                  *)
(***************************************************************************)
\* ticks of the loop that are explored
MaxTicks == 120
\* method calls on one Object that are explored
MaxOps == 3

(***************************************************************************)
(* Inputs of the Object's operations                                       *)
(***************************************************************************)
\* the smallest positive float32 (its reciprocal overflows)
TinyMass == Fin(1, EMin)
PosSet == {Vec3(Zero, Zero, Zero),
           Vec3(One, groundLevel, FInt(-3)),
           Vec3(FInt(2), FInt(-2), Zero)}
VelSet == {Vec3(Zero, FInt(5), Zero),
           Vec3(Zero, Zero, Zero),
           Vec3(One, FInt(-400), FInt(-2))}
MassSet == {One, FInt(3), Zero, FInt(-2), TinyMass}
ElasticitySet == {Zero, Dec(8, 10), One}
ForceSet == {Vec3(Zero, FNeg(gravityG), Zero),
             Vec3(FInt(2), FInt(7), FInt(-1)),
             Vec3(Zero, FInt(-300), Zero)}
DtSet == {timeStep, One, Zero}
\* forces of the additivity comparison; 16777216 = 2^24 absorbs an added 1
AddSet == {Vec3(Zero, FNeg(gravityG), Zero),
           Vec3(One, One, Zero),
           Vec3(Zero, FInt(16777216), FInt(3))}

(***************************************************************************)
(* State                                                                   *)
(***************************************************************************)
VARIABLES
    object,       \* the Object (main's variable object)
    pc,           \* position of main
    shouldClose,  \* the window's close flag (window.ShouldClose)
    escKey,       \* the state of the escape key as the last PollEvents left it
    ticks,        \* number of values received from ticker.C
    done,         \* what the current tick has done so far, in order
    count,        \* how often the loop ran Update, DrawArrays, SwapBuffers, and
                  \* how many of its Updates left position.y < 0 (below) or
                  \* took the collision branch (bounce)
    uniform,      \* the matrix last submitted to the model uniform
    res,          \* which resources are alive: vao, vbo, glfw
    call,         \* the last method call on object: its name, receiver before, argument
    ops,          \* number of method calls made on object
    twin,         \* a copy of object that receives the sum of two forces at once
    rev           \* a copy of object that receives two forces in reverse order

vars == <<object, pc, shouldClose, escKey, ticks, done, count, uniform, res, call,
          ops, twin, rev>>
loopVars == <<shouldClose, escKey, ticks, done, count, uniform, res>>

\* main up to line 126: glfw, the window, gl, the buffers and the shader
\* program were set up without error, the object is constructed
Init ==
    /\ object = mainObject
    /\ pc = "cond"
    /\ shouldClose = FALSE
    /\ escKey = FALSE
    /\ ticks = 0
    /\ done = <<>>
    /\ count = [update |-> 0, draw |-> 0, swap |-> 0, below |-> 0, bounce |-> 0]
    /\ uniform = Translate3D(Zero, Zero, Zero)
    /\ res = [vao |-> TRUE, vbo |-> TRUE, glfw |-> TRUE]
    /\ call = [op |-> "NewObject", obj |-> mainObject, arg |-> Zero]
    /\ ops = 0
    /\ twin = mainObject
    /\ rev = mainObject

(***************************************************************************)
(* main: the loop, line 127 to 148, and the teardown                       *)
(***************************************************************************)
\* line 127 as "for {": the close flag is never looked at
LoopForever ==
    /\ pc = "cond"
    /\ pc' = "wait"
    /\ UNCHANGED <<object, shouldClose, escKey, ticks, done, count, uniform, res, call, ops, twin, rev>>

\* line 127: for !window.ShouldClose()
LoopCond ==
    /\ pc = "cond"
    /\ pc' = IF shouldClose THEN "cleanup" ELSE "wait"
    /\ UNCHANGED <<object, shouldClose, escKey, ticks, done, count, uniform, res, call, ops, twin, rev>>

\* line 128: <-ticker.C
WaitTicker ==
    /\ pc = "wait"
    /\ ticks < MaxTicks
    /\ ticks' = ticks + 1
    /\ done' = <<"wait">>
    /\ pc' = "input"
    /\ UNCHANGED <<object, shouldClose, escKey, count, uniform, res, call, ops, twin, rev>>

\* processInput leaving the loop at once when escape is down
processInputBreak ==
    /\ pc = "input"
    /\ shouldClose' = IF escKey THEN TRUE ELSE shouldClose
    /\ done' = Append(done, "input")
    /\ pc' = IF escKey THEN "cleanup" ELSE "force"
    /\ UNCHANGED <<object, escKey, ticks, count, uniform, res, call, ops, twin, rev>>

\* line 130 and processInput
processInput ==
    /\ pc = "input"
    /\ shouldClose' = IF escKey THEN TRUE ELSE shouldClose
    /\ done' = Append(done, "input")
    /\ pc' = "force"
    /\ UNCHANGED <<object, escKey, ticks, count, uniform, res, call, ops, twin, rev>>

\* line 132: object.AddForce(gravity)
ApplyGravity ==
    /\ pc = "force"
    /\ \E force \in {Gravity(object)} :
          /\ \E o \in {AddForce(object, force)} : object' = o
          /\ call' = [op |-> "AddForce", obj |-> object, arg |-> force]
    /\ done' = Append(done, "force")
    /\ pc' = "update"
    /\ UNCHANGED <<shouldClose, escKey, ticks, count, uniform, res, ops, twin, rev>>

\* line 133: object.Update(timeStep)
Step ==
    /\ pc = "update"
    /\ \E o \in {Update(object, timeStep)}, mid \in {Integrate(object, timeStep)} :
          /\ object' = o
          /\ \E below \in {FLt(o.Position[2], Zero)},
                bounce \in {FLt(mid.Position[2], groundLevel)} :
                count' = [count EXCEPT
                             !.update = @ + 1,
                             !.below = IF below THEN @ + 1 ELSE @,
                             !.bounce = IF bounce THEN @ + 1 ELSE @]
    /\ call' = [op |-> "Update", obj |-> object, arg |-> timeStep]
    /\ done' = Append(done, "update")
    /\ pc' = "render"
    /\ UNCHANGED <<shouldClose, escKey, ticks, uniform, res, ops, twin, rev>>

\* lines 141-142 with the matrix taken before Update: the frame shows the
\* position of the tick before
RenderStale ==
    /\ pc = "render"
    /\ uniform' = ModelMatrix(call.obj)
    /\ count' = [count EXCEPT !.draw = @ + 1]
    /\ done' = Append(done, "draw")
    /\ pc' = "swap"
    /\ UNCHANGED <<object, shouldClose, escKey, ticks, res, call, ops, twin, rev>>

\* lines 135-144: clear, bind, submit the model matrix, draw
Render ==
    /\ pc = "render"
    /\ uniform' = ModelMatrix(object)
    /\ count' = [count EXCEPT !.draw = @ + 1]
    /\ done' = Append(done, "draw")
    /\ pc' = "swap"
    /\ UNCHANGED <<object, shouldClose, escKey, ticks, res, call, ops, twin, rev>>

\* line 146: window.SwapBuffers()
SwapBuffers ==
    /\ pc = "swap"
    /\ count' = [count EXCEPT !.swap = @ + 1]
    /\ done' = Append(done, "swap")
    /\ pc' = "poll"
    /\ UNCHANGED <<object, shouldClose, escKey, ticks, uniform, res, call, ops, twin, rev>>

\* line 147: glfw.PollEvents() delivers the pending events: the escape key
\* may have been pressed or released, the user may have closed the window
PollEvents ==
    /\ pc = "poll"
    /\ \E key \in BOOLEAN, closed \in BOOLEAN :
          /\ escKey' = key
          /\ shouldClose' = (shouldClose \/ closed)
    /\ done' = Append(done, "poll")
    /\ pc' = "cond"
    /\ UNCHANGED <<object, ticks, count, uniform, res, call, ops, twin, rev>>

\* lines 150-151: gl.DeleteVertexArrays, gl.DeleteBuffers
Cleanup ==
    /\ pc = "cleanup"
    /\ res' = [res EXCEPT !.vao = FALSE, !.vbo = FALSE]
    /\ pc' = "terminate"
    /\ UNCHANGED <<object, shouldClose, escKey, ticks, done, count, uniform, call, ops, twin, rev>>

\* line 78: the deferred glfw.Terminate()
Terminate ==
    /\ pc = "terminate"
    /\ res' = [res EXCEPT !.glfw = FALSE]
    /\ pc' = "exit"
    /\ UNCHANGED <<object, shouldClose, escKey, ticks, done, count, uniform, call, ops, twin, rev>>

Next ==
    \/ LoopCond
    \/ WaitTicker
    \/ processInput
    \/ ApplyGravity
    \/ Step
    \/ Render
    \/ SwapBuffers
    \/ PollEvents
    \/ Cleanup
    \/ Terminate

Spec == Init /\ [][Next]_vars

\* the ticker keeps firing and the one thread of main runs every statement
\* it has reached
FairSpec ==
    /\ Spec
    /\ WF_vars(LoopCond) /\ WF_vars(WaitTicker) /\ WF_vars(processInput)
    /\ WF_vars(ApplyGravity) /\ WF_vars(Step) /\ WF_vars(Render)
    /\ WF_vars(SwapBuffers) /\ WF_vars(PollEvents)
    /\ WF_vars(Cleanup) /\ WF_vars(Terminate)

(***************************************************************************)
(* The Object on its own: any constructed Object, any calls                *)
(***************************************************************************)
\* NewObject with any arguments; the loop of main is not running
InitBody ==
    /\ \E position \in PosSet, velocity \in VelSet,
          mass \in MassSet, elasticity \in ElasticitySet :
          /\ object = NewObject(position, velocity, mass, elasticity)
          /\ call = [op |-> "NewObject", obj |-> object, arg |-> mass]
    /\ pc = "body"
    /\ shouldClose = FALSE
    /\ escKey = FALSE
    /\ ticks = 0
    /\ done = <<>>
    /\ count = [update |-> 0, draw |-> 0, swap |-> 0, below |-> 0, bounce |-> 0]
    /\ uniform = Translate3D(Zero, Zero, Zero)
    /\ res = [vao |-> TRUE, vbo |-> TRUE, glfw |-> TRUE]
    /\ ops = 0
    /\ twin = object
    /\ rev = object

\* object.AddForce(force)
DoAddForce ==
    /\ pc = "body"
    /\ ops < MaxOps
    /\ \E force \in ForceSet :
          /\ object' = AddForce(object, force)
          /\ call' = [op |-> "AddForce", obj |-> object, arg |-> force]
    /\ ops' = ops + 1
    /\ UNCHANGED <<pc, twin, rev>>
    /\ UNCHANGED loopVars

\* object.Update(dt)
DoUpdate ==
    /\ pc = "body"
    /\ ops < MaxOps
    /\ \E dt \in DtSet :
          /\ object' = Update(object, dt)
          /\ call' = [op |-> "Update", obj |-> object, arg |-> dt]
    /\ ops' = ops + 1
    /\ UNCHANGED <<pc, twin, rev>>
    /\ UNCHANGED loopVars

NextBody == DoAddForce \/ DoUpdate

SpecBody == InitBody /\ [][NextBody]_vars

(***************************************************************************)
(* Two forces one after the other against their sum at once                *)
(***************************************************************************)
InitAdd ==
    /\ \E position \in PosSet, velocity \in VelSet,
          mass \in MassSet, elasticity \in ElasticitySet :
          /\ object = NewObject(position, velocity, mass, elasticity)
          /\ call = [op |-> "NewObject", obj |-> object, arg |-> <<Zero3, Zero3>>]
    /\ pc = "fresh"
    /\ twin = object
    /\ rev = object
    /\ shouldClose = FALSE
    /\ escKey = FALSE
    /\ ticks = 0
    /\ done = <<>>
    /\ count = [update |-> 0, draw |-> 0, swap |-> 0, below |-> 0, bounce |-> 0]
    /\ uniform = Translate3D(Zero, Zero, Zero)
    /\ res = [vao |-> TRUE, vbo |-> TRUE, glfw |-> TRUE]
    /\ ops = 0

\* an earlier AddForce(force) of the same tick, on all three copies
PreForce ==
    /\ pc = "fresh"
    /\ \E force \in AddSet :
          /\ object' = AddForce(object, force)
          /\ twin' = AddForce(twin, force)
          /\ rev' = AddForce(rev, force)
    /\ pc' = "loaded"
    /\ UNCHANGED <<call, ops>>
    /\ UNCHANGED loopVars

\* object: AddForce(A); AddForce(B).  twin: AddForce(A+B), the sum being the
\* caller's float32 Vec3 sum.  rev: AddForce(B); AddForce(A).  call keeps
\* the object before the two calls and the two forces.
AddTwo ==
    /\ pc \in {"fresh", "loaded"}
    /\ \E A \in AddSet, B \in AddSet :
          /\ object' = AddForce(AddForce(object, A), B)
          /\ twin' = AddForce(twin, Add3(A, B))
          /\ rev' = AddForce(AddForce(rev, B), A)
          /\ call' = [op |-> "AddForce", obj |-> object, arg |-> <<A, B>>]
    /\ pc' = "added"
    /\ UNCHANGED ops
    /\ UNCHANGED loopVars

\* Update(dt) on all three copies
UpdateAll ==
    /\ pc = "added"
    /\ \E dt \in DtSet :
          /\ object' = Update(object, dt)
          /\ twin' = Update(twin, dt)
          /\ rev' = Update(rev, dt)
    /\ call' = [call EXCEPT !.op = "Update"]
    /\ pc' = "compared"
    /\ UNCHANGED ops
    /\ UNCHANGED loopVars

NextAdd == PreForce \/ AddTwo \/ UpdateAll

SpecAdd == InitAdd /\ [][NextAdd]_vars

(***************************************************************************)
(* Properties of the Object (checked under SpecBody)                       *)
(***************************************************************************)
Finite3(v) == IsFin(v[1]) /\ IsFin(v[2]) /\ IsFin(v[3])
\* an Object whose fields and whose reciprocal mass are finite numbers
FiniteObject(o) ==
    /\ Finite3(o.Position) /\ Finite3(o.Velocity) /\ Finite3(o.Forces)
    /\ IsFin(o.Mass) /\ IsFin(o.Elasticity)
    /\ IsFin(FDiv(One, o.Mass))
PositiveMass(o) == FLt(Zero, o.Mass)
\* the last call was Update; call.obj is the Object before it, call.arg its dt
Updated == call.op = "Update"
\* the Object between the integration and the collision check of that Update
Integrated == Integrate(call.obj, call.arg)

\* C1: after every call to Update(dt) the accumulated force is the zero
\* vector, whatever the position, velocity, mass, elasticity, force and dt
C1_ForcesZeroAfterUpdate == Updated => object.Forces = Zero3

\* a call of Update on an Object of positive mass that had forces accumulated
C1_Witness ==
    /\ Updated
    /\ PositiveMass(call.obj)
    /\ call.obj.Forces[2] # Zero
    /\ object.Forces = Zero3

\* C2: an Object of mass <= 0 is rejected at construction, so Update is
\* never called on an Object whose Mass is zero or negative
C2_UpdateOnlyOnPositiveMass == Updated => PositiveMass(call.obj)

\* C3: when the integrated position.y is below the ground level, Update
\* leaves position.y = -1.0 and velocity.y = -(v) * elasticity, v being the
\* y-velocity after the integration; elasticity 0 gives velocity.y = 0 and
\* elasticity 1 gives -v; the x and z components are those of the integration
C3_GroundCollisionOriginal ==
    (Updated /\ PositiveMass(call.obj) /\ FLt(Integrated.Position[2], groundLevel)) =>
        /\ object.Position[2] = groundLevel
        /\ object.Velocity[2] = FMul(FNeg(Integrated.Velocity[2]), call.obj.Elasticity)
        /\ (call.obj.Elasticity = Zero => object.Velocity[2] = Zero)
        /\ (call.obj.Elasticity = One => object.Velocity[2] = FNeg(Integrated.Velocity[2]))
        /\ object.Position[1] = Integrated.Position[1]
        /\ object.Position[3] = Integrated.Position[3]
        /\ object.Velocity[1] = Integrated.Velocity[1]
        /\ object.Velocity[3] = Integrated.Velocity[3]

\* C3 as amended: the same, with "elasticity 0 gives velocity.y = 0" only
\* for a finite v (an infinite v times 0 is NaN)
C3_GroundCollision ==
    (Updated /\ FLt(Integrated.Position[2], groundLevel)) =>
        /\ object.Position[2] = groundLevel
        /\ object.Velocity[2] = FMul(FNeg(Integrated.Velocity[2]), call.obj.Elasticity)
        /\ (call.obj.Elasticity = Zero /\ IsFin(Integrated.Velocity[2])
               => object.Velocity[2] = Zero)
        /\ (call.obj.Elasticity = One => object.Velocity[2] = FNeg(Integrated.Velocity[2]))
        /\ object.Position[1] = Integrated.Position[1]
        /\ object.Position[3] = Integrated.Position[3]
        /\ object.Velocity[1] = Integrated.Velocity[1]
        /\ object.Velocity[3] = Integrated.Velocity[3]

\* a bounce of restitution 0.8 that turned a falling Object upwards
C3_Witness ==
    /\ Updated
    /\ FLt(Integrated.Position[2], groundLevel)
    /\ FLt(Integrated.Velocity[2], Zero)
    /\ IsFin(Integrated.Velocity[2])
    /\ call.obj.Elasticity = Dec(8, 10)
    /\ object.Position[2] = groundLevel
    /\ FLt(Zero, object.Velocity[2])
    /\ object.Velocity[1] # Zero

\* position + velocity * dt, the step of an Object no force acts on
Displaced(o, dt) == Add3(o.Position, Mul3(o.Velocity, dt))
\* Update(dt), dt > 0, was called on a finite Object of positive mass with
\* no force accumulated
ZeroForceStep ==
    /\ Updated
    /\ call.obj.Forces = Zero3
    /\ FLt(Zero, call.arg)
    /\ PositiveMass(call.obj)
    /\ FiniteObject(call.obj)

\* C4: for dt > 0 and zero accumulated force Update(dt) leaves velocity
\* unchanged and advances position by velocity * dt, also when the step
\* ends below the ground level
C4_ZeroForceOriginal ==
    ZeroForceStep =>
        /\ object.Velocity = call.obj.Velocity
        /\ object.Position = Displaced(call.obj, call.arg)

\* C4 as amended: that holds for the x and z components, and for the y
\* components unless position.y + velocity.y * dt is below the ground
\* level; then position.y = -1.0 and velocity.y = -velocity.y * elasticity
C4_ZeroForce ==
    ZeroForceStep =>
        LET to == Displaced(call.obj, call.arg)
        IN  /\ object.Velocity[1] = call.obj.Velocity[1]
            /\ object.Velocity[3] = call.obj.Velocity[3]
            /\ object.Position[1] = to[1]
            /\ object.Position[3] = to[3]
            /\ IF FLt(to[2], groundLevel)
               THEN /\ object.Position[2] = groundLevel
                    /\ object.Velocity[2] =
                           FMul(FNeg(call.obj.Velocity[2]), call.obj.Elasticity)
               ELSE /\ object.Position[2] = to[2]
                    /\ object.Velocity[2] = call.obj.Velocity[2]

\* a force-free step that ended below the ground, and moved along x too
C4_Witness ==
    /\ ZeroForceStep
    /\ FLt(Displaced(call.obj, call.arg)[2], groundLevel)
    /\ object.Position[1] # call.obj.Position[1]
    /\ object.Velocity[2] # call.obj.Velocity[2]

\* C10: after any Update(dt) with mass > 0, elasticity in [0, 1] and dt > 0
\* position.y >= -1.0
C10_GroundFloorOriginal ==
    (/\ Updated
     /\ PositiveMass(call.obj)
     /\ Finite3(call.obj.Position) /\ Finite3(call.obj.Velocity)
     /\ Finite3(call.obj.Forces)
     /\ FLe(Zero, call.obj.Elasticity) /\ FLe(call.obj.Elasticity, One)
     /\ FLt(Zero, call.arg))
        => FLe(groundLevel, object.Position[2])

\* C10 as amended: ... provided the Object before the call is finite and so
\* is 1 / mass (otherwise 0 * Inf makes the position NaN)
C10_GroundFloor ==
    (/\ Updated
     /\ PositiveMass(call.obj)
     /\ FiniteObject(call.obj)
     /\ FLe(Zero, call.obj.Elasticity) /\ FLe(call.obj.Elasticity, One)
     /\ FLt(Zero, call.arg))
        => FLe(groundLevel, object.Position[2])

\* a single step that would have ended more than 100 below the ground
C10_Witness ==
    /\ Updated
    /\ PositiveMass(call.obj)
    /\ FiniteObject(call.obj)
    /\ FLt(Zero, call.arg)
    /\ FLt(Integrated.Position[2], FInt(-100))
    /\ object.Position[2] = groundLevel

(***************************************************************************)
(* Additivity of AddForce (checked under SpecAdd)                          *)
(***************************************************************************)
\* C5: AddForce(A); AddForce(B); Update(dt) ends in the same position,
\* velocity and accumulated force as AddForce(A+B); Update(dt), and as
\* AddForce(B); AddForce(A); Update(dt), from every state of the Object
C5_AdditiveOriginal == pc = "compared" => (object = twin /\ object = rev)

\* C5 as amended: ... from every state whose accumulated force is zero (as
\* it is after NewObject and after every Update)
C5_Additive ==
    (pc = "compared" /\ call.obj.Forces = Zero3) => (object = twin /\ object = rev)

\* two different forces added to an empty accumulator changed the velocity
\* of an Object of positive mass, and the three copies agree
C5_Witness ==
    /\ pc = "compared"
    /\ call.obj.Forces = Zero3
    /\ call.arg[1] # call.arg[2]
    /\ PositiveMass(object)
    /\ FiniteObject(object)
    /\ object.Velocity # call.obj.Velocity
    /\ object = twin
    /\ object = rev

(***************************************************************************)
(* Properties of the loop of main (checked under Spec and FairSpec)        *)
(***************************************************************************)
\* the loop has been left
Exited == pc \in {"cleanup", "terminate", "exit"}
\* what one tick does, in order
TickOrder == <<"wait", "input", "force", "update", "draw", "swap", "poll">>

\* C6: from position (0,0,0), velocity (0,5,0), mass 1, elasticity 0.8,
\* within 100 ticks of AddForce((0,-9.81,0)); Update(0.01) position.y
\* becomes negative and is clamped to -1.0 with velocity.y reflected
C6_ScenarioOriginal ==
    count.update = 100 => (count.below >= 1 /\ count.bounce >= 1)

\* C6 as amended: through the 100 ticks position.y stays positive and
\* nothing is clamped; position.y is first negative after tick 101, and is
\* clamped to -1.0 on tick 119, the tick on which it first crosses below
\* the ground level, with velocity.y flipping sign scaled by 0.8
C6_Scenario ==
    /\ (count.update <= 100 => (count.below = 0 /\ count.bounce = 0))
    /\ (count.update \in 1..100 /\ Updated => FLt(Zero, object.Position[2]))
    /\ (count.update >= 101 => count.below >= 1)
    /\ (count.update \in 101..118 /\ Updated =>
            (FLt(object.Position[2], Zero) /\ FLt(groundLevel, object.Position[2])))
    /\ (count.update <= 118 => count.bounce = 0)
    /\ (count.update = 119 => count.bounce = 1)
    /\ (count.update = 119 /\ Updated =>
            /\ FLt(Integrated.Position[2], groundLevel)
            /\ FLt(Integrated.Velocity[2], Zero)
            /\ object.Position[2] = groundLevel
            /\ object.Velocity[2] = FMul(FNeg(Integrated.Velocity[2]), Dec(8, 10))
            /\ FLt(Zero, object.Velocity[2]))

\* the bounce of tick 119
C6_Witness ==
    /\ count.update = 119
    /\ Updated
    /\ count.bounce = 1
    /\ object.Position[2] = groundLevel
    /\ FLt(Zero, object.Velocity[2])

\* C7: a close request (escape seen by processInput, or a close event of
\* PollEvents) is acted on only by the loop condition: the loop is left only
\* from there, and every tick that started has run its Update and exactly
\* one draw and one buffer swap by then
C7_NoCancelMidTick ==
    /\ [](Exited => (count.update = ticks /\ count.draw = ticks /\ count.swap = ticks))
    /\ [][(Exited' /\ ~Exited) => (pc = "cond" /\ shouldClose)]_vars
    /\ [][(shouldClose' /\ ~shouldClose) => (pc \in {"input", "poll"} /\ ~Exited')]_vars

\* escape was seen in the middle of a tick, which went on to its draw
C7_Witness ==
    /\ pc = "swap"
    /\ shouldClose
    /\ escKey
    /\ ticks >= 2
    /\ count.update = ticks
    /\ count.draw = ticks

\* C8: a tick does, once each and in this order: wait for the ticker,
\* AddForce(gravity), Update(timeStep), submit ModelMatrix() and draw, swap
\* buffers, poll events (processInput follows the wait); at every loop
\* condition as many Updates as draws and swaps have run; the matrix
\* submitted is that of the position this tick's Update produced
C8_TickOrder ==
    /\ Len(done) <= Len(TickOrder)
    /\ done = SubSeq(TickOrder, 1, Len(done))
    /\ (pc = "cond" /\ ticks > 0 => done = TickOrder)
    /\ (pc = "cond" => (count.update = ticks /\ count.draw = ticks /\ count.swap = ticks))
    /\ (pc \in {"input", "force", "update", "render", "swap", "poll"}
            => pc = (<<"input", "force", "update", "render", "swap", "poll">>)[Len(done)])
    /\ (pc \in {"render", "swap", "poll"} \/ (pc = "cond" /\ ticks > 0) =>
            /\ Updated
            /\ call.arg = timeStep
            /\ call.obj.Forces = Vec3(Zero, FMul(FNeg(gravityG), object.Mass), Zero)
            /\ object = Update(call.obj, timeStep))
    /\ (pc \in {"swap", "poll"} \/ (pc = "cond" /\ ticks > 0) =>
            /\ uniform = Translate3D(object.Position[1], object.Position[2],
                                     object.Position[3])
            /\ uniform[14] = Update(call.obj, timeStep).Position[2])

\* three whole ticks have run and the Object has moved
C8_Witness ==
    /\ pc = "cond"
    /\ ticks = 3
    /\ done = TickOrder
    /\ count.draw = 3
    /\ uniform[14] # Zero

\* C9: without a close request the loop goes on; once the close flag is set
\* the loop is left (the ticker keeps firing), then the vertex array and
\* the buffer are deleted and glfw is terminated; no tick runs after the
\* loop condition has seen the flag
C9_Termination ==
    /\ shouldClose ~> (pc = "exit")
    /\ [](pc = "exit" => (~res.vao /\ ~res.vbo /\ ~res.glfw))
    /\ [](~Exited => (res.vao /\ res.vbo /\ res.glfw))
    /\ [][pc = "cond" => pc' = (IF shouldClose THEN "cleanup" ELSE "wait")]_vars
    /\ [][Exited => (Exited' /\ ticks' = ticks /\ count' = count /\ object' = object)]_vars

\* main has returned after at least one tick
C9_Witness ==
    /\ pc = "exit"
    /\ shouldClose
    /\ ticks >= 1
    /\ ~res.vao /\ ~res.vbo /\ ~res.glfw

====
